---- MODULE Spec2Model ----
(***************************************************************************)
(* Model of juniper-eager-loading (src/juniper-eager-loading/src/lib.rs):  *)
(* the edge slots (DbEdge, OptionDbEdge, VecDbEdge), the type-keyed cache  *)
(* (Cache, CacheInner, DynamicCache) and the recursive orchestration       *)
(* (EagerLoadChildrenOfType::eager_load_children and the entry points of   *)
(* EagerLoadAllChildren).                                                  *)
(*                                                                         *)
(* An Option<T> is a sequence of length at most one: <<>> is None and      *)
(* <<x>> is Some(x).                                                       *)
(***************************************************************************)
EXTENDS Integers, Sequences, FiniteSets, TLC

VARIABLES
    db,        \* the backing store: its rows and the keys it cannot read
    models,    \* the source models handed to the entry point
    nodes,     \* the nodes handed to the entry point (mutated in place)
    stale,     \* what the root nodes' slots held before the first call
    cache,     \* the Cache the running pass uses
    stack,     \* the call stack of the orchestration
    err,       \* Option<Error>: the error travelling up the stack
    result,    \* what the entry point returned
    phase,     \* "idle", "running" or "done"
    pass,      \* number of entry-point calls started
    entry,     \* the entry point of the current pass
    fresh,     \* the current pass started on an enabled, empty cache
    prev,      \* Option: outcome of the previous pass
    loadLog,   \* history: the external load calls of the current pass
    writes,    \* history: number of edge-slot writes of the current pass
    ops,       \* harness: number of calls made on the cache or on the slots
    lastGet,   \* harness: the last get (or try_unwrap) and what it returned
    gotSome,   \* cache harness: number of get calls that returned a value
    gotNone,   \* cache harness: number of get calls that returned nothing
    lastIns    \* cache harness: last value inserted under each (tag, id)

vars == <<db, models, nodes, stale, cache, stack, err, result, phase, pass,
          entry, fresh, prev, loadLog, writes, ops, lastGet, gotSome,
          gotNone, lastIns>>

orchVars == <<db, models, nodes, stale, stack, err, result, phase, pass,
              entry, fresh, prev, loadLog, writes>>

harnessVars == <<ops, lastGet, gotSome, gotNone, lastIns>>

-----------------------------------------------------------------------------
(* Bounds *)

MaxId == 2
MaxRoots == 2
MaxPasses == 2
MaxOps == 4
MaxLiveRoots == 1

Ids == 1..MaxId

None == <<>>
Some(x) == <<x>>

RECURSIVE SeqToSet(_)
SeqToSet(s) == IF s = <<>> THEN {} ELSE {Head(s)} \cup SeqToSet(Tail(s))

RECURSIVE Perms(_)
Perms(S) ==
    IF S = {} THEN {<<>>}
    ELSE UNION {{<<x>> \o p : p \in Perms(S \ {x})} : x \in S}

-----------------------------------------------------------------------------
(* Edge slots *)

NotLoaded == [st |-> "NotLoaded", v |-> <<>>]
LoadFailed == [st |-> "LoadFailed", v |-> <<>>]
Loaded(v) == [st |-> "Loaded", v |-> v]

\* DbEdge::try_unwrap, OptionDbEdge::try_unwrap, VecDbEdge::try_unwrap
try_unwrap(self) ==
    IF self.st = "Loaded" THEN [ok |-> TRUE, v |-> self.v, e |-> ""]
    ELSE [ok |-> FALSE, v |-> <<>>, e |-> self.st]

\* a DbEdge::loaded_or_failed that writes nothing when the value is absent
DbEdge_keeps_on_none(self, inner) ==
    IF inner # None THEN Loaded(<<inner[1]>>) ELSE self

\* a DbEdge::loaded_or_failed that puts the slot back to NotLoaded when the
\* value is absent
DbEdge_resets_on_none(self, inner) ==
    IF inner # None THEN Loaded(<<inner[1]>>) ELSE NotLoaded

DbEdge_loaded_or_failed(self, inner) ==
    IF inner # None THEN Loaded(<<inner[1]>>) ELSE LoadFailed

\* an OptionDbEdge::loaded_or_failed that writes only a present value
OptionDbEdge_keeps_on_none(self, inner) ==
    IF inner # None THEN Loaded(inner) ELSE self

OptionDbEdge_loaded_or_failed(self, inner) == Loaded(inner)

\* a VecDbEdge::loaded_or_failed that replaces the vector by the new value
VecDbEdge_replaces(self, inner) ==
    IF inner # None THEN Loaded(<<inner[1]>>)
    ELSE IF self.st = "Loaded" THEN self ELSE Loaded(<<>>)

VecDbEdge_loaded_or_failed(self, inner) ==
    IF self.st = "Loaded"
    THEN IF inner # None THEN Loaded(Append(self.v, inner[1])) ELSE self
    ELSE IF inner # None THEN Loaded(<<inner[1]>>) ELSE Loaded(<<>>)

-----------------------------------------------------------------------------
(* The cache *)

EmptyMap == [k \in {} |-> 0]

DynamicCache_new == EmptyMap

Boxed(vty, val) == [vty |-> vty, val |-> val]

\* a DynamicCache::insert whose key leaves out the TypeId
DynamicCache_insert_untagged(map, tag, key, value) ==
    [k \in {j \in DOMAIN map : j[2] # key} \cup {<<tag, key>>} |->
        IF k = <<tag, key>> THEN value ELSE map[k]]

DynamicCache_insert(map, tag, key, value) ==
    [k \in DOMAIN map \cup {<<tag, key>>} |->
        IF k = <<tag, key>> THEN value ELSE map[k]]

\* value.downcast_ref::<V>() is None when the boxed value is not a V
DynamicCache_get(map, tag, vty, key) ==
    IF <<tag, key>> \in DOMAIN map /\ map[<<tag, key>>].vty = vty
    THEN Some(map[<<tag, key>>].val)
    ELSE None

Cache_new == [enabled |-> TRUE, map |-> DynamicCache_new, hits |-> 0, misses |-> 0]

Cache_disabled == [enabled |-> FALSE, map |-> EmptyMap, hits |-> 0, misses |-> 0]

\* a CacheInner::insert that keeps the value a key already holds
CacheInner_insert_if_absent(c, tag, key, value) ==
    IF <<tag, key>> \in DOMAIN c.map THEN c
    ELSE [c EXCEPT !.map = DynamicCache_insert(c.map, tag, key, value)]

CacheInner_insert(c, tag, key, value) ==
    [c EXCEPT !.map = DynamicCache_insert(c.map, tag, key, value)]

\* a CacheInner::get that counts a hit before the downcast
CacheInner_get_counts_entry(c, tag, vty, key) ==
    LET res == DynamicCache_get(c.map, tag, vty, key) IN
    IF <<tag, key>> \in DOMAIN c.map
    THEN [cache |-> [c EXCEPT !.hits = @ + 1], res |-> res]
    ELSE [cache |-> [c EXCEPT !.misses = @ + 1], res |-> res]

\* returns the cache (counters moved) and the Option found
CacheInner_get(c, tag, vty, key) ==
    LET res == DynamicCache_get(c.map, tag, vty, key) IN
    IF res # None
    THEN [cache |-> [c EXCEPT !.hits = @ + 1], res |-> res]
    ELSE [cache |-> [c EXCEPT !.misses = @ + 1], res |-> res]

\* a Cache::insert that turns NoCaching into a cache holding the value
Cache_insert_enables(c, tag, key, value) ==
    CacheInner_insert([c EXCEPT !.enabled = TRUE], tag, key, value)

Cache_insert(c, tag, key, value) ==
    IF ~c.enabled THEN c ELSE CacheInner_insert(c, tag, key, value)

Cache_get(c, tag, vty, key) ==
    IF ~c.enabled THEN [cache |-> c, res |-> None]
    ELSE CacheInner_get(c, tag, vty, key)

Cache_hits(c) == IF ~c.enabled THEN 0 ELSE c.hits

Cache_misses(c) == IF ~c.enabled THEN 0 ELSE c.misses

\* significant bits of an f32
F32_MANTISSA_DIGITS == 24

\* `n as f32` for a usize n: the nearest value with 24 significant bits,
\* ties to even (u is the spacing of the f32 values around n)
RECURSIVE RoundTo(_, _)
RoundTo(n, u) ==
    IF n < u * 2^F32_MANTISSA_DIGITS
    THEN LET q == n \div u
             r == n % u
         IN IF 2 * r > u \/ (2 * r = u /\ q % 2 = 1) THEN (q + 1) * u ELSE q * u
    ELSE RoundTo(n, 2 * u)

as_f32(n) == RoundTo(n, 1)

\* an f32 quotient num / den, kept as the pair it is the quotient of
Quotient(num, den) == [num |-> num, den |-> den]

\* the f32 literal 0.
Zero == Quotient(0, 1)

\* a Cache::hit_rate without the test for two zero counters
Cache_hit_rate_unguarded(c) ==
    IF ~c.enabled THEN Zero
    ELSE LET hits == as_f32(Cache_hits(c))
             misses == as_f32(Cache_misses(c))
         IN Quotient(hits, as_f32(hits + misses))

Cache_hit_rate(c) ==
    IF ~c.enabled THEN Zero
    ELSE LET hits == as_f32(Cache_hits(c))
             misses == as_f32(Cache_misses(c))
         IN IF hits = 0 /\ misses = 0 THEN Zero
            ELSE Quotient(hits, as_f32(hits + misses))

-----------------------------------------------------------------------------
(* The node types of the model: a Root has an optional edge to a Mid and a *)
(* required edge to a Leaf; a Mid has a multi edge to a Leaf.  Mid and     *)
(* Leaf share one id space; Leaf models are cached under one type-tag by   *)
(* both relationships that reach them.                                     *)

FieldsOf(ty) ==
    CASE ty = "Root" -> <<"opt", "req">>
      [] ty = "Mid" -> <<"multi">>
      [] OTHER -> <<>>

FieldSet(ty) == SeqToSet(FieldsOf(ty))

ChildType(f) == IF f = "opt" THEN "Mid" ELSE "Leaf"

\* the TypeKey a relationship caches under: its child model type
TypeTag(f) == ChildType(f)

Model(ty, id, fk) == [ty |-> ty, id |-> id, fk |-> fk]

LeafModel(id) == Model("Leaf", id, EmptyMap)

MidModel(id, c) == Model("Mid", id, [f \in {"multi"} |-> c])

RootModel(id, b, a) ==
    Model("Root", id, [f \in {"opt", "req"} |-> IF f = "opt" THEN b ELSE a])

\* GraphqlNodeForModel::new_from_model: every edge starts NotLoaded
new_from_model(model) ==
    [ty |-> model.ty, id |-> model.id, fk |-> model.fk,
     edges |-> [f \in FieldSet(model.ty) |-> NotLoaded]]

\* GraphqlNodeForModel::from_db_models
RECURSIVE from_db_models(_)
from_db_models(ms) ==
    IF ms = <<>> THEN <<>>
    ELSE <<new_from_model(Head(ms))>> \o from_db_models(Tail(ms))

\* EagerLoadChildrenOfType::child_id
child_id(f, model) == model.fk[f]

\* EagerLoadChildrenOfType::is_child_of
is_child_of(f, node, child) == node.fk[f] = child.id

\* EagerLoadChildrenOfType::loaded_or_failed_child
loaded_or_failed_child(f, node, child) ==
    [node EXCEPT !.edges[f] =
        CASE f = "req" -> DbEdge_loaded_or_failed(@, child)
          [] f = "opt" -> OptionDbEdge_loaded_or_failed(@, child)
          [] OTHER -> VecDbEdge_loaded_or_failed(@, child)]

MissingResult(id) == [k |-> "Missing", x |-> id]
LoadedResult(model) == [k |-> "Loaded", x |-> model]

\* EagerLoadChildrenOfType::load_from_cache: one LoadResult per id, each
\* from one Cache::get under the relationship's type-tag
RECURSIVE load_from_cache(_, _, _)
load_from_cache(f, ids, c) ==
    IF ids = <<>> THEN [cache |-> c, results |-> <<>>]
    ELSE LET g == Cache_get(c, TypeTag(f), ChildType(f), Head(ids))
             rest == load_from_cache(f, Tail(ids), g.cache)
         IN [cache |-> rest.cache,
             results |-> <<IF g.res # None THEN LoadedResult(g.res[1])
                           ELSE MissingResult(Head(ids))>> \o rest.results]

\* EagerLoadChildrenOfType::store_in_cache: keyed by the model's own id
store_in_cache(f, child, c) ==
    Cache_insert(c, TypeTag(f), child.id, Boxed(ChildType(f), child))

RECURSIVE store_all(_, _, _)
store_all(f, ms, c) ==
    IF ms = <<>> THEN c
    ELSE store_all(f, Tail(ms), store_in_cache(f, Head(ms), c))

\* the Error a failed load_children returns: it names the key the store
\* could not read
LoadError(f, ids) ==
    [ty |-> ChildType(f),
     id |-> CHOOSE i \in SeqToSet(ids) : <<ChildType(f), i>> \in db.bad]

\* EagerLoadChildrenOfType::load_children: every outcome the store allows.
\* The load fails when it is asked for a key the store cannot read;
\* otherwise it returns the rows with a requested id, each once, in any order.
load_children(f, ids) ==
    IF \E i \in DOMAIN ids : <<ChildType(f), ids[i]>> \in db.bad
    THEN {[ok |-> FALSE, rows |-> <<>>, e |-> Some(LoadError(f, ids))]}
    ELSE {[ok |-> TRUE, rows |-> p, e |-> None] :
            p \in Perms({r \in db.rows :
                            r.ty = ChildType(f) /\ r.id \in SeqToSet(ids)})}

-----------------------------------------------------------------------------
(* The call stack.  Frames alternate: eager_load_all_children_for_each of  *)
(* a type ("all"), eager_load_children of one of its fields ("rel"), ...   *)
(* A frame holds the locals of the call; `loads` is history: the id lists  *)
(* this call has passed to load_children; `before` is history: the nodes   *)
(* as they were when eager_load_children was called.                       *)

AllFrame(ty) ==
    [kind |-> "all", ty |-> ty, field |-> "", pc |-> "fields", i |-> 1,
     child_ids |-> <<>>, results |-> <<>>, child_models |-> <<>>,
     ids_to_load |-> <<>>, loaded_models |-> <<>>, children |-> <<>>,
     loads |-> <<>>, before |-> <<>>]

RelFrame(ty, f) ==
    [kind |-> "rel", ty |-> ty, field |-> f, pc |-> "lookup", i |-> 0,
     child_ids |-> <<>>, results |-> <<>>, child_models |-> <<>>,
     ids_to_load |-> <<>>, loaded_models |-> <<>>, children |-> <<>>,
     loads |-> <<>>, before |-> <<>>]

Depth == Len(stack)

Top == stack[Depth]

Pop == SubSeq(stack, 1, Depth - 1)

\* index of the frame that owns the slice `nodes` of frame d (0: the caller)
OwnerOf(d) == IF stack[d].kind = "all" THEN d - 1 ELSE d - 2

\* the `nodes` parameter of frame d: a mutable borrow of the caller's vector
NodesOf(d) == IF OwnerOf(d) = 0 THEN nodes ELSE stack[OwnerOf(d)].children

\* the `models` parameter of frame d
ModelsOf(d) == IF OwnerOf(d) = 0 THEN models ELSE stack[OwnerOf(d)].child_models

Running == phase = "running" /\ err = None /\ Depth > 0

AtRel(pc) == Running /\ Top.kind = "rel" /\ Top.pc = pc

\* children.iter().find(|child| Self::is_child_of(node, child))
RECURSIVE find(_, _, _)
find(f, node, children) ==
    IF children = <<>> THEN None
    ELSE IF is_child_of(f, node, Head(children)) THEN Some(Head(children))
    ELSE find(f, node, Tail(children))

\* a split that sends every id to the load, cached or not
RECURSIVE AllIds(_)
AllIds(results) ==
    IF results = <<>> THEN <<>>
    ELSE <<IF Head(results).k = "Missing" THEN Head(results).x
           ELSE Head(results).x.id>> \o AllIds(Tail(results))

RECURSIVE MissingIds(_)
MissingIds(results) ==
    IF results = <<>> THEN <<>>
    ELSE (IF Head(results).k = "Missing" THEN <<Head(results).x>> ELSE <<>>)
         \o MissingIds(Tail(results))

\* a split that drops the models found in the cache
DroppedModels(results) == <<>>

RECURSIVE LoadedModels(_)
LoadedModels(results) ==
    IF results = <<>> THEN <<>>
    ELSE (IF Head(results).k = "Loaded" THEN <<Head(results).x>> ELSE <<>>)
         \o LoadedModels(Tail(results))

-----------------------------------------------------------------------------
(* eager_load_children, one action per step of its body *)

RECURSIVE child_ids_of(_, _)
child_ids_of(f, ms) ==
    IF ms = <<>> THEN <<>>
    ELSE <<child_id(f, Head(ms))>> \o child_ids_of(f, Tail(ms))

\* lines 206-219: project the child ids, look them up in the cache, split
\* the results into cached models and ids to load
Lookup ==
    /\ AtRel("lookup")
    /\ LET f == Top.field
           ids == child_ids_of(f, ModelsOf(Depth))
           got == load_from_cache(f, ids, cache)
       IN /\ cache' = got.cache
          /\ stack' = [stack EXCEPT ![Depth] =
                [@ EXCEPT !.child_ids = ids,
                          !.results = got.results,
                          !.child_models = LoadedModels(got.results),
                          !.ids_to_load = MissingIds(got.results),
                          !.pc = "load"]]
    /\ UNCHANGED <<db, models, nodes, stale, err, result, phase, pass, entry,
                   fresh, prev, loadLog, writes>>
    /\ UNCHANGED harnessVars

LogEntry(f, ids, out) ==
    [field |-> f, tag |-> TypeTag(f), ids |-> ids, ok |-> out.ok,
     rows |-> out.rows, e |-> out.e, depth |-> Depth,
     emptyCache |-> (DOMAIN cache.map = {})]

\* line 221: nothing is missing, load_children is not called
LoadSkip ==
    /\ AtRel("load")
    /\ Top.ids_to_load = <<>>
    /\ stack' = [stack EXCEPT ![Depth].pc = "build"]
    /\ UNCHANGED <<db, models, nodes, stale, cache, err, result, phase, pass,
                   entry, fresh, prev, loadLog, writes>>
    /\ UNCHANGED harnessVars

\* line 222, Ok: load_children returned models
LoadOk ==
    /\ AtRel("load")
    /\ Top.ids_to_load # <<>>
    /\ \E out \in load_children(Top.field, Top.ids_to_load) :
          /\ out.ok
          /\ stack' = [stack EXCEPT ![Depth] =
                [@ EXCEPT !.loaded_models = out.rows,
                          !.loads = Append(@, Top.ids_to_load),
                          !.pc = "store"]]
          /\ loadLog' = Append(loadLog, LogEntry(Top.field, Top.ids_to_load, out))
    /\ UNCHANGED <<db, models, nodes, stale, cache, err, result, phase, pass,
                   entry, fresh, prev, writes>>
    /\ UNCHANGED harnessVars

\* a failed load that marks the slot of every node of the level LoadFailed
\* before it returns the error
LoadErrMarksFailed ==
    /\ AtRel("load")
    /\ Top.ids_to_load # <<>>
    /\ \E out \in load_children(Top.field, Top.ids_to_load) :
          /\ ~out.ok
          /\ err' = out.e
          /\ loadLog' = Append(loadLog, LogEntry(Top.field, Top.ids_to_load, out))
    /\ LET o == OwnerOf(Depth)
           new == [i \in DOMAIN NodesOf(Depth) |->
                     [NodesOf(Depth)[i] EXCEPT !.edges[Top.field] = LoadFailed]]
       IN /\ nodes' = IF o = 0 THEN new ELSE nodes
          /\ stack' = IF o = 0 THEN Pop ELSE [Pop EXCEPT ![o].children = new]
    /\ UNCHANGED <<db, models, stale, cache, result, phase, pass,
                   entry, fresh, prev, writes>>
    /\ UNCHANGED harnessVars

\* a failed load that empties the cache before it returns the error
LoadErrRollsBack ==
    /\ AtRel("load")
    /\ Top.ids_to_load # <<>>
    /\ \E out \in load_children(Top.field, Top.ids_to_load) :
          /\ ~out.ok
          /\ err' = out.e
          /\ stack' = Pop
          /\ loadLog' = Append(loadLog, LogEntry(Top.field, Top.ids_to_load, out))
    /\ cache' = [cache EXCEPT !.map = EmptyMap]
    /\ UNCHANGED <<db, models, nodes, stale, result, phase, pass,
                   entry, fresh, prev, writes>>
    /\ UNCHANGED harnessVars

\* a failed load that is called again instead of returning its error
LoadErrRetries ==
    /\ AtRel("load")
    /\ Top.ids_to_load # <<>>
    /\ \E out \in load_children(Top.field, Top.ids_to_load) : ~out.ok
    /\ UNCHANGED <<db, models, nodes, stale, cache, stack, err, result, phase,
                   pass, entry, fresh, prev, loadLog, writes>>
    /\ UNCHANGED harnessVars

\* line 222, Err: the `?` returns the error from eager_load_children
LoadErr ==
    /\ AtRel("load")
    /\ Top.ids_to_load # <<>>
    /\ \E out \in load_children(Top.field, Top.ids_to_load) :
          /\ ~out.ok
          /\ err' = out.e
          /\ stack' = Pop
          /\ loadLog' = Append(loadLog, LogEntry(Top.field, Top.ids_to_load, out))
    /\ UNCHANGED <<db, models, nodes, stale, cache, result, phase, pass,
                   entry, fresh, prev, writes>>
    /\ UNCHANGED harnessVars

\* lines 223-226 without the store_in_cache loop
StoreSkipsCache ==
    /\ AtRel("store")
    /\ stack' = [stack EXCEPT ![Depth] =
          [@ EXCEPT !.child_models = @ \o Top.loaded_models, !.pc = "build"]]
    /\ UNCHANGED <<db, models, nodes, stale, cache, err, result, phase, pass,
                   entry, fresh, prev, loadLog, writes>>
    /\ UNCHANGED harnessVars

\* lines 223-226: store every loaded model, then extend child_models
Store ==
    /\ AtRel("store")
    /\ cache' = store_all(Top.field, Top.loaded_models, cache)
    /\ stack' = [stack EXCEPT ![Depth] =
          [@ EXCEPT !.child_models = @ \o Top.loaded_models, !.pc = "build"]]
    /\ UNCHANGED <<db, models, nodes, stale, err, result, phase, pass, entry,
                   fresh, prev, loadLog, writes>>
    /\ UNCHANGED harnessVars

\* lines 229-232: one child node per child model
Build ==
    /\ AtRel("build")
    /\ stack' = [stack EXCEPT ![Depth] =
          [@ EXCEPT !.children = from_db_models(Top.child_models),
                    !.pc = "recurse"]]
    /\ UNCHANGED <<db, models, nodes, stale, cache, err, result, phase, pass,
                   entry, fresh, prev, loadLog, writes>>
    /\ UNCHANGED harnessVars

\* lines 229-241 without the call of line 234: the children are written
\* into the slots as they were built
RecurseSkipsChildLevel ==
    /\ AtRel("recurse")
    /\ stack' = [stack EXCEPT ![Depth].pc = "stitch"]
    /\ UNCHANGED <<db, models, nodes, stale, cache, err, result, phase, pass,
                   entry, fresh, prev, loadLog, writes>>
    /\ UNCHANGED harnessVars

\* line 234: Child::eager_load_all_children_for_each(&mut children, ...)
Recurse ==
    /\ AtRel("recurse")
    /\ stack' = Append([stack EXCEPT ![Depth].pc = "stitch"],
                       AllFrame(ChildType(Top.field)))
    /\ UNCHANGED <<db, models, nodes, stale, cache, err, result, phase, pass,
                   entry, fresh, prev, loadLog, writes>>
    /\ UNCHANGED harnessVars

\* a stitch that pairs the nodes with the children by position
RECURSIVE stitch_zip(_, _, _)
stitch_zip(f, ns, children) ==
    IF ns = <<>> THEN <<>>
    ELSE <<loaded_or_failed_child(f, Head(ns),
              IF children = <<>> THEN None ELSE Some(Head(children)))>>
         \o stitch_zip(f, Tail(ns),
                       IF children = <<>> THEN <<>> ELSE Tail(children))

RECURSIVE stitch_all(_, _, _)
stitch_all(f, ns, children) ==
    IF ns = <<>> THEN <<>>
    ELSE <<loaded_or_failed_child(f, Head(ns), find(f, Head(ns), children))>>
         \o stitch_all(f, Tail(ns), children)

\* lines 236-241: write the first matching child into every node's slot
Stitch ==
    /\ AtRel("stitch")
    /\ LET new == stitch_all(Top.field, NodesOf(Depth), Top.children)
           o == OwnerOf(Depth)
       IN /\ nodes' = IF o = 0 THEN new ELSE nodes
          /\ stack' = IF o = 0 THEN [stack EXCEPT ![Depth].pc = "ret"]
                      ELSE [stack EXCEPT ![Depth].pc = "ret",
                                         ![o].children = new]
          /\ writes' = writes + Len(new)
    /\ UNCHANGED <<db, models, stale, cache, err, result, phase, pass, entry,
                   fresh, prev, loadLog>>
    /\ UNCHANGED harnessVars

\* line 243: Ok(())
RelReturn ==
    /\ AtRel("ret")
    /\ stack' = Pop
    /\ UNCHANGED <<db, models, nodes, stale, cache, err, result, phase, pass,
                   entry, fresh, prev, loadLog, writes>>
    /\ UNCHANGED harnessVars

-----------------------------------------------------------------------------
(* eager_load_all_children_for_each of a type: eager_load_children of each *)
(* of its fields in turn, stopping at the first error                      *)

ForEachField ==
    /\ Running
    /\ Top.kind = "all"
    /\ Top.i <= Len(FieldsOf(Top.ty))
    /\ stack' = Append([stack EXCEPT ![Depth].i = @ + 1],
                       [RelFrame(Top.ty, FieldsOf(Top.ty)[Top.i])
                            EXCEPT !.before = NodesOf(Depth)])
    /\ UNCHANGED <<db, models, nodes, stale, cache, err, result, phase, pass,
                   entry, fresh, prev, loadLog, writes>>
    /\ UNCHANGED harnessVars

ForEachReturn ==
    /\ Running
    /\ Top.kind = "all"
    /\ Top.i > Len(FieldsOf(Top.ty))
    /\ stack' = Pop
    /\ UNCHANGED <<db, models, nodes, stale, cache, err, result, phase, pass,
                   entry, fresh, prev, loadLog, writes>>
    /\ UNCHANGED harnessVars

\* line 234 without its `?`: eager_load_children drops the error of the
\* child level and goes on to write the slots
PropagateDropsChildError ==
    /\ phase = "running"
    /\ err # None
    /\ Depth > 0
    /\ IF Top.kind = "rel" /\ Top.pc = "stitch"
       THEN err' = None /\ stack' = stack
       ELSE err' = err /\ stack' = Pop
    /\ UNCHANGED <<db, models, nodes, stale, cache, result, phase, pass,
                   entry, fresh, prev, loadLog, writes>>
    /\ UNCHANGED harnessVars

\* the `?` after a call that returned Err: the caller returns the same Err
Propagate ==
    /\ phase = "running"
    /\ err # None
    /\ Depth > 0
    /\ stack' = Pop
    /\ UNCHANGED <<db, models, nodes, stale, cache, err, result, phase, pass,
                   entry, fresh, prev, loadLog, writes>>
    /\ UNCHANGED harnessVars

-----------------------------------------------------------------------------
(* The caller: it builds the inputs, calls an entry point of               *)
(* EagerLoadAllChildren and may call again on the same inputs.             *)

\* what a root node's slot held before the call
StaleEdge(f, choice) ==
    CASE choice = "NotLoaded" -> NotLoaded
      [] choice = "LoadFailed" -> (IF f = "req" THEN LoadFailed ELSE Loaded(<<>>))
      [] OTHER -> Loaded(<<new_from_model(
                      IF f = "opt" THEN MidModel(0, 0) ELSE LeafModel(0))>>)

RECURSIVE InitNodes(_, _)
InitNodes(ms, choice) ==
    IF ms = <<>> THEN <<>>
    ELSE <<[new_from_model(Head(ms)) EXCEPT
              !.edges = [f \in FieldSet("Root") |-> StaleEdge(f, choice)]]>>
         \o InitNodes(Tail(ms), choice)

StaleChoices == {"NotLoaded", "LoadFailed", "Loaded"}

\* the rows a store can hold: any Leaf and Mid rows, at most one per id
MidTables ==
    UNION {{{MidModel(i, c[i]) : i \in S} : c \in [S -> Ids]} : S \in SUBSET Ids}

LeafTables == {{LeafModel(i) : i \in S} : S \in SUBSET Ids}

BadKeys == {{}} \cup {{<<ty, i>>} : ty \in {"Mid", "Leaf"}, i \in Ids}

RECURSIVE RootModels(_)
RootModels(n) ==
    IF n = 0 THEN {<<>>}
    ELSE {Append(ms, RootModel(n, b, a)) :
            ms \in RootModels(n - 1), b \in Ids, a \in Ids}

Pending == [st |-> "Pending", e |-> None, node |-> None]

HarnessIdle ==
    /\ ops = 0
    /\ lastGet = None
    /\ gotSome = 0
    /\ gotNone = 0
    /\ lastIns = EmptyMap

Init ==
    /\ db \in {[rows |-> m \cup l, bad |-> b] :
                 m \in MidTables, l \in LeafTables, b \in BadKeys}
    /\ models \in UNION {RootModels(n) : n \in 0..MaxRoots}
    /\ stale \in StaleChoices
    /\ nodes = InitNodes(models, stale)
    /\ cache = Cache_new
    /\ stack = <<>>
    /\ err = None
    /\ result = Pending
    /\ phase = "idle"
    /\ pass = 0
    /\ entry = ""
    /\ fresh = FALSE
    /\ prev = None
    /\ loadLog = <<>>
    /\ writes = 0
    /\ HarnessIdle

Enter(name, c) ==
    /\ phase = "idle"
    /\ pass < MaxPasses
    /\ phase' = "running"
    /\ pass' = pass + 1
    /\ entry' = name
    /\ cache' = c
    /\ fresh' = (c.enabled /\ DOMAIN c.map = {})
    /\ stack' = <<AllFrame("Root")>>
    /\ UNCHANGED <<db, models, nodes, stale, err, result, prev, loadLog, writes>>
    /\ UNCHANGED harnessVars

\* eager_load_all_children_for_each(nodes, models, db, trail, cache)
CallForEach == Enter("for_each", cache)

\* eager_load_all_children_for_each_without_cache: a disabled cache
CallWithoutCache == Enter("without_cache", Cache_disabled)

\* eager_load_all_chilren(node, models, db, trail, cache): vec![node]
CallSingle == Len(nodes) = 1 /\ Enter("single", cache)

\* the entry point returns: Err(e) of the failed load, Ok(()) or, from
\* eager_load_all_chilren, Ok(nodes.remove(0))
EntryReturn ==
    /\ phase = "running"
    /\ Depth = 0
    /\ result' = IF err # None THEN [st |-> "Err", e |-> err, node |-> None]
                 ELSE [st |-> "Ok", e |-> None,
                       node |-> IF entry = "single" THEN Some(nodes[1]) ELSE None]
    /\ phase' = "done"
    /\ UNCHANGED <<db, models, nodes, stale, cache, stack, err, pass, entry,
                   fresh, prev, loadLog, writes>>
    /\ UNCHANGED harnessVars

\* after a call with its own cache the caller keeps the outcome and
\* prepares the same inputs again
Again ==
    /\ phase = "done"
    /\ pass < MaxPasses
    /\ entry = "for_each"
    /\ prev' = Some([result |-> result, nodes |-> nodes, entry |-> entry,
                     fresh |-> fresh, hits |-> Cache_hits(cache),
                     loads |-> Len(loadLog)])
    /\ nodes' = InitNodes(models, stale)
    /\ result' = Pending
    /\ err' = None
    /\ loadLog' = <<>>
    /\ writes' = 0
    /\ phase' = "idle"
    /\ UNCHANGED <<db, models, stale, cache, stack, pass, entry, fresh>>
    /\ UNCHANGED harnessVars

Next ==
    \/ CallForEach
    \/ CallWithoutCache
    \/ CallSingle
    \/ ForEachField
    \/ ForEachReturn
    \/ Lookup
    \/ LoadSkip
    \/ LoadOk
    \/ LoadErr
    \/ Store
    \/ Build
    \/ Recurse
    \/ Stitch
    \/ RelReturn
    \/ Propagate
    \/ EntryReturn
    \/ Again

Spec == Init /\ [][Next]_vars

\* the steps of a running entry-point call: the calls are synchronous and
\* load_children returns, so a call that can take a step takes it
Run ==
    \/ ForEachField
    \/ ForEachReturn
    \/ Lookup
    \/ LoadSkip
    \/ LoadOk
    \/ LoadErr
    \/ Store
    \/ Build
    \/ Recurse
    \/ Stitch
    \/ RelReturn
    \/ Propagate
    \/ EntryReturn

\* the calls whose termination is followed: on at most MaxLiveRoots roots
\* with fresh slots
LiveInit ==
    /\ Init
    /\ stale = "NotLoaded"
    /\ Len(models) <= MaxLiveRoots

FairSpec == LiveInit /\ [][Next]_vars /\ WF_vars(Run)

-----------------------------------------------------------------------------
(* The cache on its own: any sequence of insert and get calls *)

Tags == {"A", "B"}

ValueTypes == {"i32", "String"}

CacheValues == {Boxed("i32", "123"), Boxed("i32", "456"),
                Boxed("String", "bool value")}

CacheInit ==
    /\ db = [rows |-> {}, bad |-> {}]
    /\ models = <<>>
    /\ stale = "NotLoaded"
    /\ nodes = <<>>
    /\ cache \in {Cache_new, Cache_disabled}
    /\ stack = <<>>
    /\ err = None
    /\ result = Pending
    /\ phase = "cache"
    /\ pass = 0
    /\ entry = IF cache.enabled THEN "new" ELSE "disabled"
    /\ fresh = FALSE
    /\ prev = None
    /\ loadLog = <<>>
    /\ writes = 0
    /\ HarnessIdle

\* cache.insert::<tag, _>(key, value)
Insert(tag, key, value) ==
    /\ phase = "cache"
    /\ ops < MaxOps
    /\ cache' = Cache_insert(cache, tag, key, value)
    /\ lastIns' = [k \in DOMAIN lastIns \cup {<<tag, key>>} |->
                     IF k = <<tag, key>> THEN value ELSE lastIns[k]]
    /\ ops' = ops + 1
    /\ UNCHANGED <<lastGet, gotSome, gotNone>>
    /\ UNCHANGED orchVars

\* cache.get::<tag, vty>(key)
Get(tag, vty, key) ==
    /\ phase = "cache"
    /\ ops < MaxOps
    /\ LET g == Cache_get(cache, tag, vty, key) IN
          /\ cache' = g.cache
          /\ lastGet' = Some([tag |-> tag, vty |-> vty, key |-> key, res |-> g.res])
          /\ gotSome' = IF g.res # None THEN gotSome + 1 ELSE gotSome
          /\ gotNone' = IF g.res = None THEN gotNone + 1 ELSE gotNone
    /\ ops' = ops + 1
    /\ UNCHANGED lastIns
    /\ UNCHANGED orchVars

CacheInsert == \E tag \in Tags, key \in Ids, value \in CacheValues : Insert(tag, key, value)

CacheGet == \E tag \in Tags, vty \in ValueTypes, key \in Ids : Get(tag, vty, key)

CacheNext == CacheInsert \/ CacheGet

CacheSpec == CacheInit /\ [][CacheNext]_vars

-----------------------------------------------------------------------------
(* The edge slots on their own: one slot of each shape, created by         *)
(* Default::default(), under any sequence of loaded_or_failed and          *)
(* try_unwrap calls.  loadLog is the history of the loaded_or_failed calls. *)

Shapes == {"req", "opt", "multi"}

\* Option<T> arguments of loaded_or_failed
Inners == {None} \cup {Some(v) : v \in Ids}

SlotHolder == [ty |-> "Slots", id |-> 0, fk |-> EmptyMap,
               edges |-> [s \in Shapes |-> NotLoaded]]

Slot(s) == nodes[1].edges[s]

EdgeInit ==
    /\ db = [rows |-> {}, bad |-> {}]
    /\ models = <<>>
    /\ stale = "NotLoaded"
    /\ nodes = <<SlotHolder>>
    /\ cache = Cache_disabled
    /\ stack = <<>>
    /\ err = None
    /\ result = Pending
    /\ phase = "edge"
    /\ pass = 0
    /\ entry = ""
    /\ fresh = FALSE
    /\ prev = None
    /\ loadLog = <<>>
    /\ writes = 0
    /\ HarnessIdle

\* edge.loaded_or_failed(inner) on the slot of shape s
LoadedOrFailed(s, inner) ==
    /\ phase = "edge"
    /\ ops < MaxOps
    /\ nodes' = [nodes EXCEPT ![1].edges[s] =
          CASE s = "req" -> DbEdge_loaded_or_failed(@, inner)
            [] s = "opt" -> OptionDbEdge_loaded_or_failed(@, inner)
            [] OTHER -> VecDbEdge_loaded_or_failed(@, inner)]
    /\ loadLog' = Append(loadLog, [shape |-> s, inner |-> inner])
    /\ ops' = ops + 1
    /\ UNCHANGED <<db, models, stale, cache, stack, err, result, phase, pass,
                   entry, fresh, prev, writes>>
    /\ UNCHANGED <<lastGet, gotSome, gotNone, lastIns>>

\* edge.try_unwrap() on the slot of shape s: it borrows the slot
TryUnwrap(s) ==
    /\ phase = "edge"
    /\ ops < MaxOps
    /\ lastGet' = Some([shape |-> s, res |-> try_unwrap(Slot(s))])
    /\ ops' = ops + 1
    /\ UNCHANGED orchVars
    /\ UNCHANGED <<cache, gotSome, gotNone, lastIns>>

EdgeLoadedOrFailed == \E s \in Shapes, inner \in Inners : LoadedOrFailed(s, inner)

EdgeTryUnwrap == \E s \in Shapes : TryUnwrap(s)

EdgeNext == EdgeLoadedOrFailed \/ EdgeTryUnwrap

EdgeSpec == EdgeInit /\ [][EdgeNext]_vars

-----------------------------------------------------------------------------
(* The library as a whole: a program either runs the orchestration or     *)
(* works on edge slots directly.                                          *)

ProgramInit == Init \/ EdgeInit

ProgramNext == Next \/ EdgeNext

ProgramSpec == ProgramInit /\ [][ProgramNext]_vars

-----------------------------------------------------------------------------
(* Properties of the orchestration (checked under Spec) *)

RowIds(rows) == {rows[k].id : k \in DOMAIN rows}

RelFrames == {d \in DOMAIN stack : stack[d].kind = "rel"}

AfterLoad(d) == stack[d].pc \in {"store", "build", "recurse", "stitch", "ret"}

MissingAt(fr) == {i \in DOMAIN fr.results : fr.results[i].k = "Missing"}

FoundAt(fr) == {i \in DOMAIN fr.results : fr.results[i].k = "Loaded"}

\* C1: with an enabled cache, an id whose model an earlier load call of the
\* pass returned is never in the id list of a later load call under the
\* same type-tag.
C1_NoRefetch ==
    cache.enabled =>
        \A i, j \in DOMAIN loadLog :
            (i < j /\ loadLog[i].tag = loadLog[j].tag) =>
                RowIds(loadLog[i].rows) \cap SeqToSet(loadLog[j].ids) = {}

\* a level call has just loaded its misses while one of its child ids was
\* fetched by an earlier load under the same type-tag
C1_Witness ==
    /\ AtRel("store")
    /\ cache.enabled
    /\ \E i \in DOMAIN loadLog :
          /\ i < Len(loadLog)
          /\ loadLog[i].tag = TypeTag(Top.field)
          /\ RowIds(loadLog[i].rows) \cap SeqToSet(Top.child_ids) # {}

\* C2: a load call made on an empty cache is handed each distinct id once.
C2_LoadIdsDistinct ==
    \A i \in DOMAIN loadLog :
        loadLog[i].emptyCache =>
            \A a, b \in DOMAIN loadLog[i].ids :
                a # b => loadLog[i].ids[a] # loadLog[i].ids[b]

\* C3: when eager_load_children is about to return Ok, no node of its level
\* has the relationship's slot NotLoaded (a required edge is Loaded or
\* LoadFailed); when the entry point has returned Ok, no slot of a node it
\* was given is NotLoaded.
C3_EdgeFinality ==
    /\ AtRel("ret") =>
          \A i \in DOMAIN NodesOf(Depth) :
              LET e == NodesOf(Depth)[i].edges[Top.field] IN
              /\ e.st # "NotLoaded"
              /\ Top.field = "req" => e.st \in {"Loaded", "LoadFailed"}
    /\ (phase = "done" /\ result.st = "Ok") =>
          \A i \in DOMAIN nodes : \A f \in FieldSet("Root") :
              nodes[i].edges[f].st # "NotLoaded"

\* a level of several nodes returns although the load gave no model at all
C3_Witness ==
    /\ AtRel("ret")
    /\ Top.field = "req"
    /\ Len(NodesOf(Depth)) >= 2
    /\ Top.loads # <<>>
    /\ Top.children = <<>>
    /\ stale = "NotLoaded"

NoMatch(f, node, children) ==
    \A k \in DOMAIN children : children[k].id # node.fk[f]

\* C4: when eager_load_children is about to return Ok from an optional or
\* required relationship, a node none of whose children matches holds
\* Loaded(None) (optional) or LoadFailed (required), whatever the slot held
\* before, and every other node of the level holds its matching child.
C4_AbsentChild ==
    (AtRel("ret") /\ Top.field \in {"opt", "req"}) =>
        \A i \in DOMAIN NodesOf(Depth) :
            LET n == NodesOf(Depth)[i]
                e == n.edges[Top.field]
            IN IF NoMatch(Top.field, n, Top.children)
               THEN e = (IF Top.field = "opt" THEN Loaded(None) ELSE LoadFailed)
               ELSE /\ e.st = "Loaded"
                    /\ Len(e.v) = 1
                    /\ e.v[1].id = n.fk[Top.field]

\* slots that held an earlier value: one node's optional child is absent, one
\* node's required child is absent, another node's required child was found
C4_Witness ==
    /\ AtRel("ret")
    /\ Top.field = "req"
    /\ Depth = 2
    /\ stale = "Loaded"
    /\ \E i \in DOMAIN nodes : nodes[i].edges["opt"] = Loaded(None)
    /\ \E i \in DOMAIN nodes : nodes[i].edges["req"] = LoadFailed
    /\ \E i \in DOMAIN nodes :
          /\ nodes[i].edges["req"].st = "Loaded"
          /\ nodes[i].edges["req"].v[1].id = nodes[i].fk["req"]

\* C5: a level call that has passed its load step has called load_children
\* once, with the ids the lookup reported Missing (each as often as it was
\* reported), when some id is missing, and not at all otherwise; before the
\* load step it has not called it; an id found in the cache is not in the
\* list and its model is among child_models.
C5_LoadExactlyMissing ==
    \A d \in RelFrames :
        LET fr == stack[d] IN
        IF ~AfterLoad(d) THEN fr.loads = <<>>
        ELSE /\ IF MissingAt(fr) = {} THEN fr.loads = <<>>
                ELSE /\ Len(fr.loads) = 1
                     /\ \A id \in Ids :
                           Cardinality({i \in MissingAt(fr) : fr.results[i].x = id})
                           = Cardinality({k \in DOMAIN fr.loads[1] : fr.loads[1][k] = id})
             /\ \A i \in FoundAt(fr) :
                   /\ \A q \in DOMAIN fr.loads :
                         fr.results[i].x.id \notin SeqToSet(fr.loads[q])
                   /\ \E k \in DOMAIN fr.child_models :
                         fr.child_models[k] = fr.results[i].x

\* a level call found one id in the cache and loaded another
C5_Witness ==
    \E d \in RelFrames :
        /\ AfterLoad(d)
        /\ MissingAt(stack[d]) # {}
        /\ FoundAt(stack[d]) # {}
        /\ Len(stack[d].loads) = 1

FailedLoads == {i \in DOMAIN loadLog : ~loadLog[i].ok}

\* C6: the error travelling up the stack is the one of the failed load, which
\* is the last load call of the pass; while it travels no load is called, no
\* slot is written and each step only returns from one frame; the entry
\* point returns Err exactly when a load failed, and with that error.
C6_FirstFailureWins ==
    /\ [](err # None =>
            /\ FailedLoads = {Len(loadLog)}
            /\ err = loadLog[Len(loadLog)].e)
    /\ [](phase = "done" =>
            /\ (result.st = "Err") = (FailedLoads # {})
            /\ result.st = "Err" => result.e = err /\ err # None)
    /\ [][(phase = "running" /\ err # None) =>
            /\ err' = err
            /\ loadLog' = loadLog
            /\ writes' = writes
            /\ nodes' = nodes
            /\ cache' = cache
            /\ \/ stack' = Pop
               \/ stack' = stack /\ Depth = 0 /\ result'.st = "Err"]_vars

\* eager_load_all_chilren returned the error of a load that failed after
\* earlier loads had succeeded and slots had been written
C6_Witness ==
    /\ phase = "done"
    /\ entry = "single"
    /\ result.st = "Err"
    /\ Len(loadLog) >= 2
    /\ writes > 0

\* C7: a call without cache on the inputs of an earlier call that started
\* on a fresh enabled cache returns what that call returned and leaves the
\* nodes as that call left them.
C7_CacheEquivalence ==
    (/\ phase = "done"
     /\ entry = "without_cache"
     /\ prev # None
     /\ prev[1].entry = "for_each"
     /\ prev[1].fresh) =>
        /\ result = prev[1].result
        /\ nodes = prev[1].nodes

\* the cached call was served from the cache and made fewer load calls
C7_Witness ==
    /\ phase = "done"
    /\ entry = "without_cache"
    /\ prev # None
    /\ prev[1].entry = "for_each"
    /\ prev[1].fresh
    /\ prev[1].hits > 0
    /\ prev[1].loads < Len(loadLog)
    /\ result.st = "Ok"
    /\ \E i \in DOMAIN nodes : nodes[i].edges["req"].st = "Loaded"

\* the k-th result of a lookup that was found in the cache
NthFound(fr, k) ==
    fr.results[CHOOSE i \in FoundAt(fr) :
                  Cardinality({j \in FoundAt(fr) : j <= i}) = k]

\* the children of a level whose id is the node's child id
MatchesOf(f, node, children) ==
    {k \in DOMAIN children : children[k].id = node.fk[f]}

FirstOf(S) == CHOOSE k \in S : \A j \in S : k <= j

C14_MultiHoldsAll ==
    (AtRel("ret") /\ Top.field = "multi") =>
        \A i \in DOMAIN NodesOf(Depth) :
            LET n == NodesOf(Depth)[i]
                m == MatchesOf("multi", n, Top.children)
                e == n.edges["multi"]
            IN /\ e.st = "Loaded"
               /\ Len(e.v) = Cardinality(m)
               /\ \A k \in m : \E j \in DOMAIN e.v : e.v[j] = Top.children[k]

\* the nodes of the level of the top frame, as the step leaves them
NodesAfterReturn ==
    IF OwnerOf(Depth) = 0 THEN nodes' ELSE stack'[OwnerOf(Depth)].children

\* C15: when eager_load_children returns an error, from its own load or from
\* the level below, every node it was passed is what it was when it was
\* called; until its own loop over the nodes runs, which is after the level
\* below has returned Ok, it has written to none of them.
C15_NoPartialWrite ==
    /\ [](\A d \in RelFrames :
            stack[d].pc # "ret" => NodesOf(d) = stack[d].before)
    /\ [][(phase = "running" /\ Depth > 0 /\ Top.kind = "rel"
            /\ stack' = Pop /\ err' # None) =>
               NodesAfterReturn = Top.before]_vars

\* the level of the roots' optional edge has returned the error of a load
\* two levels below it, after that level's own load succeeded; the roots
\* hold what the caller gave them
C15_Witness ==
    /\ phase = "running"
    /\ err # None
    /\ Depth = 1
    /\ Top.i = 2
    /\ Len(loadLog) = 2
    /\ loadLog[2].depth = 4
    /\ stale = "Loaded"
    /\ Len(nodes) = 2
    /\ nodes = InitNodes(models, stale)

\* the models the successful loads of the pass returned
LoadedRows ==
    UNION {{loadLog[i].rows[k] : k \in DOMAIN loadLog[i].rows} :
             i \in {j \in DOMAIN loadLog : loadLog[j].ok}}

\* C16: during a pass no step removes a cache entry or changes its value;
\* the load call that fails leaves the cache as it was; when the entry point
\* has returned an error with an enabled cache, every model the loads before
\* the failure returned is in the cache under its type-tag and id.
C16_NoRollback ==
    /\ [][phase = "running" =>
            \A k \in DOMAIN cache.map :
                k \in DOMAIN cache'.map /\ cache'.map[k] = cache.map[k]]_vars
    /\ [][(phase = "running" /\ err = None /\ err' # None) =>
            cache' = cache]_vars
    /\ []((phase = "done" /\ result.st = "Err" /\ cache.enabled) =>
            \A m \in LoadedRows :
                /\ <<m.ty, m.id>> \in DOMAIN cache.map
                /\ cache.map[<<m.ty, m.id>>] = Boxed(m.ty, m))

\* a call on a fresh cache has returned the error of its third load; the
\* models of the first two loads are in the cache
C16_Witness ==
    /\ phase = "done"
    /\ result.st = "Err"
    /\ fresh
    /\ Len(loadLog) = 3
    /\ Cardinality(LoadedRows) >= 2
    /\ Cardinality(DOMAIN cache.map) >= 2

StepOrder ==
    {<<"lookup", "load">>, <<"load", "store">>, <<"load", "build">>,
     <<"store", "build">>, <<"build", "recurse">>, <<"recurse", "stitch">>,
     <<"stitch", "ret">>}

TopAt(pc) == Depth > 0 /\ Top.kind = "rel" /\ Top.pc = pc

Resolved(node) == \A g \in FieldSet(node.ty) : node.edges[g].st # "NotLoaded"

\* C17: a call of eager_load_children moves through its steps in the order
\* lookup, load (skipped into build when nothing is missing), store, build,
\* recurse, stitch, return.  The cache is read only in the lookup step, the
\* load is called only in the load step, the cache is written only in the
\* store step, the child level is entered only from the recurse step, on the
\* children built from child_models, and a slot is written only in the stitch
\* step, which is reached only when the child level has returned without
\* error.  When the call is about to return Ok, no child held by a slot of
\* its relationship has a slot that is NotLoaded.
C17_StepOrder ==
    /\ [][phase = "running" =>
            /\ \A d \in RelFrames :
                  (d <= Len(stack') /\ stack'[d].pc # stack[d].pc) =>
                      /\ d = Depth
                      /\ <<stack[d].pc, stack'[d].pc>> \in StepOrder
            /\ (Cache_hits(cache') # Cache_hits(cache)
                 \/ Cache_misses(cache') # Cache_misses(cache)) => TopAt("lookup")
            /\ loadLog' # loadLog => TopAt("load")
            /\ cache'.map # cache.map => TopAt("store")
            /\ (Depth > 0 /\ Top.kind = "rel" /\ Len(stack') > Depth) =>
                  /\ TopAt("recurse")
                  /\ Top.children = from_db_models(Top.child_models)
                  /\ stack'[Depth].pc = "stitch"
            /\ (writes' # writes \/ nodes' # nodes) =>
                  TopAt("stitch") /\ err = None]_vars
    /\ [](AtRel("ret") =>
            \A i \in DOMAIN NodesOf(Depth) :
                LET e == NodesOf(Depth)[i].edges[Top.field] IN
                \A k \in DOMAIN e.v : Resolved(e.v[k]))

\* a level call is about to return Ok after loading its misses; the child it
\* wrote into a slot carries a child of its own
C17_Witness ==
    /\ AtRel("ret")
    /\ Top.field = "opt"
    /\ Top.loads # <<>>
    /\ \E i \in DOMAIN nodes :
          /\ nodes[i].edges["opt"].st = "Loaded"
          /\ Len(nodes[i].edges["opt"].v) = 1
          /\ nodes[i].edges["opt"].v[1].edges["multi"].st = "Loaded"
          /\ Len(nodes[i].edges["opt"].v[1].edges["multi"].v) = 1

\* the depth of the relationship tree below a node type
RECURSIVE TreeDepth(_)
TreeDepth(ty) ==
    IF FieldSet(ty) = {} THEN 0
    ELSE LET below == {TreeDepth(ChildType(f)) : f \in FieldSet(ty)}
         IN 1 + CHOOSE m \in below : \A x \in below : x <= m

\* C19: the eager_load_children calls on the stack are never more than the
\* relationship tree below the root type is deep, and every entry-point
\* call that has been made returns, with Ok or Err.
C19_Terminates ==
    /\ [](Cardinality(RelFrames) <= TreeDepth("Root"))
    /\ [](phase = "running" => <>(phase = "done" /\ result.st \in {"Ok", "Err"}))

\* the deepest level call is about to return Ok on a level without nodes,
\* children or load
C19_Witness ==
    /\ AtRel("ret")
    /\ Cardinality(RelFrames) = TreeDepth("Root")
    /\ NodesOf(Depth) = <<>>
    /\ Top.children = <<>>
    /\ Top.loads = <<>>
    /\ loadLog = <<>>

-----------------------------------------------------------------------------
(* Properties of the cache (checked under CacheSpec) *)

\* C8: on a cache built by Cache::new, hits is the number of get calls that
\* returned a value and misses the number that returned nothing; a get
\* moves exactly one of the counters, by one, according to what it returned;
\* an insert moves neither; no counter decreases.
C8_HitMissAccounting ==
    /\ [](entry = "new" =>
            /\ Cache_hits(cache) = gotSome
            /\ Cache_misses(cache) = gotNone)
    /\ [][entry = "new" =>
            /\ Cache_hits(cache)' >= Cache_hits(cache)
            /\ Cache_misses(cache)' >= Cache_misses(cache)
            /\ IF gotSome' + gotNone' = gotSome + gotNone + 1
               THEN \/ /\ lastGet'[1].res # None
                       /\ Cache_hits(cache)' = Cache_hits(cache) + 1
                       /\ Cache_misses(cache)' = Cache_misses(cache)
                    \/ /\ lastGet'[1].res = None
                       /\ Cache_hits(cache)' = Cache_hits(cache)
                       /\ Cache_misses(cache)' = Cache_misses(cache) + 1
               ELSE /\ Cache_hits(cache)' = Cache_hits(cache)
                    /\ Cache_misses(cache)' = Cache_misses(cache)]_vars

\* gets have hit and missed; the last one found an entry of another type
C8_Witness ==
    /\ entry = "new"
    /\ gotSome >= 1
    /\ gotNone >= 1
    /\ lastGet # None
    /\ lastGet[1].res = None
    /\ <<lastGet[1].tag, lastGet[1].key>> \in DOMAIN cache.map

\* C9: on a cache built by Cache::disabled, hits and misses are 0 and the
\* last get returned nothing, whatever was inserted before.
C9_DisabledNoOp ==
    entry = "disabled" =>
        /\ Cache_hits(cache) = 0
        /\ Cache_misses(cache) = 0
        /\ lastGet # None => lastGet[1].res = None

\* a get for a key inserted earlier, asked with the inserted value's type
C9_Witness ==
    /\ entry = "disabled"
    /\ lastGet # None
    /\ <<lastGet[1].tag, lastGet[1].key>> \in DOMAIN lastIns
    /\ lastIns[<<lastGet[1].tag, lastGet[1].key>>].vty = lastGet[1].vty

\* C10: on a cache built by Cache::new, when values have been inserted under
\* two type-tags with the same id, a get under each tag returns the value
\* last inserted under that tag.
C10_TypeIsolation ==
    entry = "new" =>
        \A key \in Ids : \A a, b \in Tags :
            (a # b /\ <<a, key>> \in DOMAIN lastIns /\ <<b, key>> \in DOMAIN lastIns) =>
                Cache_get(cache, a, lastIns[<<a, key>>].vty, key).res
                    = Some(lastIns[<<a, key>>].val)

\* two tags hold different values under one id, with another key inserted
C10_Witness ==
    /\ entry = "new"
    /\ Cardinality(DOMAIN lastIns) >= 3
    /\ \E key \in Ids :
          /\ <<"A", key>> \in DOMAIN lastIns
          /\ <<"B", key>> \in DOMAIN lastIns
          /\ lastIns[<<"A", key>>] # lastIns[<<"B", key>>]

\* C11: on a cache built by Cache::new, a get under any inserted (type-tag,
\* id), asked with the type of the value last inserted there, returns that
\* value; an insert on a key already present replaces its value and leaves
\* every other entry as it was; no step removes a key from the map.
C11_LastInsertWins ==
    /\ [](entry = "new" =>
            /\ DOMAIN cache.map = DOMAIN lastIns
            /\ \A k \in DOMAIN lastIns :
                  Cache_get(cache, k[1], lastIns[k].vty, k[2]).res
                      = Some(lastIns[k].val))
    /\ [][entry = "new" =>
            /\ DOMAIN cache.map \subseteq DOMAIN cache'.map
            /\ \A k \in DOMAIN cache.map :
                  lastIns'[k] = lastIns[k] => cache'.map[k] = cache.map[k]]_vars

\* a get returned the value a key held, and the key has since been
\* overwritten with a value of another type
C11_Witness ==
    /\ entry = "new"
    /\ lastGet # None
    /\ lastGet[1].res # None
    /\ <<lastGet[1].tag, lastGet[1].key>> \in DOMAIN cache.map
    /\ cache.map[<<lastGet[1].tag, lastGet[1].key>>].vty # lastGet[1].vty
    /\ Cardinality(DOMAIN cache.map) >= 2

\* C12: in every state of a cache, hit_rate is a quotient with a positive
\* divisor that lies in [0, 1]; it equals hits / (hits + misses) when
\* hits + misses > 0 and is 0 when both counters are zero or the cache was
\* built by Cache::disabled.
C12_HitRate ==
    LET r == Cache_hit_rate(cache)
        h == Cache_hits(cache)
        m == Cache_misses(cache)
    IN /\ r.den > 0
       /\ 0 <= r.num
       /\ r.num <= r.den
       /\ h + m > 0 => r.num * (h + m) = h * r.den
       /\ (h + m = 0 \/ entry = "disabled") => r.num = 0

\* one hit and two misses: a rate strictly between 0 and 1
C12_Witness ==
    /\ entry = "new"
    /\ Cache_hits(cache) = 1
    /\ Cache_misses(cache) = 2
    /\ Cache_hit_rate(cache) = Quotient(1, 3)

-----------------------------------------------------------------------------
(* Properties of the edge slots (checked under EdgeSpec) *)

\* the values of the calls of a history that were made on shape s with a
\* present value, in call order
RECURSIVE PresentValues(_, _)
PresentValues(log, s) ==
    IF log = <<>> THEN <<>>
    ELSE (IF Head(log).shape = s /\ Head(log).inner # None
          THEN <<Head(log).inner[1]>> ELSE <<>>)
         \o PresentValues(Tail(log), s)

CallsOn(s) == {i \in DOMAIN loadLog : loadLog[i].shape = s}

\* C18: a multi slot that started NotLoaded is NotLoaded as long as
\* loaded_or_failed has not been called on it, and Loaded(s) from the first
\* call on, s being the present values of the calls in call order; a call
\* with a present value appends it and a call with an absent value leaves a
\* Loaded slot as it is.
C18_VecAccumulates ==
    /\ [](Slot("multi") =
            IF CallsOn("multi") = {} THEN NotLoaded
            ELSE Loaded(PresentValues(loadLog, "multi")))
    /\ [][\A inner \in Inners :
            (Slot("multi").st = "Loaded" /\ LoadedOrFailed("multi", inner)) =>
                Slot("multi")'.v = (IF inner = None THEN Slot("multi").v
                                    ELSE Append(Slot("multi").v, inner[1]))]_vars

\* absent, 2, absent, 1: the first call made the slot Loaded and empty, and
\* the slot now holds 2 and 1 in call order
C18_Witness ==
    /\ phase = "edge"
    /\ Len(loadLog) = 4
    /\ CallsOn("multi") = 1..4
    /\ loadLog[1].inner = None
    /\ loadLog[2].inner = Some(2)
    /\ loadLog[3].inner = None
    /\ loadLog[4].inner = Some(1)
    /\ Slot("multi") = Loaded(<<2, 1>>)

-----------------------------------------------------------------------------
(* Properties of the slots in the whole library (checked under ProgramSpec) *)

\* no slot of the nodes ns that is Loaded or LoadFailed is NotLoaded in ms
StaysSet(ns, ms) ==
    \A i \in DOMAIN ns \cap DOMAIN ms :
        \A f \in DOMAIN ns[i].edges :
            ns[i].edges[f].st # "NotLoaded" => ms[i].edges[f].st # "NotLoaded"

\* C20: no step of a running orchestration and no loaded_or_failed or
\* try_unwrap call moves a slot that is Loaded or LoadFailed to NotLoaded,
\* whether the slot belongs to a node the caller passed or to a child node
\* of a level call; a try_unwrap call leaves every slot as it is and
\* returns Ok exactly for a Loaded slot.
C20_NeverBackToNotLoaded ==
    /\ [][(phase = "running" \/ phase = "edge") =>
            /\ StaysSet(nodes, nodes')
            /\ \A d \in DOMAIN stack \cap DOMAIN stack' :
                  StaysSet(stack[d].children, stack'[d].children)]_vars
    /\ [][(phase = "edge" /\ lastGet' # lastGet) =>
            /\ nodes' = nodes
            /\ lastGet'[1].res.ok = (Slot(lastGet'[1].shape).st = "Loaded")]_vars

\* a required slot went from Loaded to LoadFailed, an optional slot holds
\* Loaded(None) and try_unwrap has been called on a slot that was not Loaded
C20_Witness ==
    /\ phase = "edge"
    /\ Len(loadLog) = 3
    /\ loadLog[1] = [shape |-> "req", inner |-> Some(1)]
    /\ loadLog[2] = [shape |-> "req", inner |-> None]
    /\ loadLog[3] = [shape |-> "opt", inner |-> None]
    /\ Slot("req") = LoadFailed
    /\ Slot("opt") = Loaded(None)
    /\ lastGet # None
    /\ ~lastGet[1].res.ok

====
